---- MODULE Spec2Model ----
(***************************************************************************)
(* Model of telegram_backup.py: the export run download_chat, from the     *)
(* creation of the platform client to its disconnect, with the message     *)
(* loop, the media classifier and filter, the retry cycle of one download  *)
(* and the transcript file.  One action per resumption of the coroutine:   *)
(* the code between two awaits runs without interleaving.                  *)
(***************************************************************************)
EXTENDS Integers, Sequences, FiniteSets, TLC

\* ------------------------------------------------------------------ bounds

\* Longest message stream the platform client delivers in a run.
MaxStream == 2

\* Most tokens that follow the three required arguments on a command line.
MaxOptionTokens == 2

\* ------------------------------------------------------- program constants

\* max_retries = 3 (download attempts per accepted media item)
max_retries == 3

\* ------------------------------------------------------------ input values

\* str(e) of the exception a download attempt raises.
Errors == {"Timeout", "Connection reset"}

\* Type-hint attributes of a document (class name split in its words; a
\* file_name of <<>> is an attribute that has no file_name field).
AttrVideo == [name |-> <<"Document", "Attribute", "Video">>, file_name |-> <<>>]
AttrAudio == [name |-> <<"Document", "Attribute", "Audio">>, file_name |-> <<>>]
AttrFilename(root, ext) ==
    [name |-> <<"Document", "Attribute", "Filename">>, file_name |-> <<root, ext>>]

\* Media payloads.  mime_type <<>> : no mime-type string.
NoMedia == [variant |-> "none"]
\* sizes: one entry per resolution variant, <<n>> when it declares a size and
\* <<>> when it has no size field.
Photo(szs) == [variant |-> "photo", sizes |-> szs]
Document(mime, attrs, sz) ==
    [variant |-> "document", mime_type |-> mime, attributes |-> attrs, size |-> sz]
OtherMedia == [variant |-> "geo"]

\* Senders: <<>> is an absent attribute value (None); a channel has no
\* first_name attribute at all.
NoSender == [kind |-> "none"]
User(username, first_name) ==
    [kind |-> "user", username |-> username, first_name |-> first_name]
Channel(username) == [kind |-> "channel", username |-> username]

\* Dates: <<>> is an absent date.
SomeDate == <<2024, 1, 2, 3, 4, 5>>
LaterDate == <<2024, 11, 30, 23, 59, 7>>

\* The message shapes the stream is made of (the id is set by the position).
Shapes ==
    { [message |-> "hello", media |-> NoMedia,
       sender |-> User(<<"alice">>, <<"Alice">>), date |-> SomeDate],
      [message |-> "look", media |-> Photo(<< <<>>, <<1000>>, <<2000000>> >>),
       sender |-> User(<<>>, <<"Bob">>), date |-> LaterDate],
      [message |-> "", media |-> Document(<<"Video", "mp4">>,
                                 <<AttrVideo, AttrFilename("clip", ".mp4")>>, 10000000),
       sender |-> NoSender, date |-> <<>>],
      [message |-> "", media |-> Document(<<>>, <<AttrAudio>>, 0),
       sender |-> User(<<"alice">>, <<>>), date |-> SomeDate],
      [message |-> "", media |-> OtherMedia,
       sender |-> Channel(<<"news">>), date |-> SomeDate],
      [message |-> "", media |-> NoMedia,
       sender |-> NoSender, date |-> SomeDate] }

RECURSIVE SeqsUpTo(_, _)
SeqsUpTo(S, n) ==
    IF n = 0 THEN { <<>> }
    ELSE LET shorter == SeqsUpTo(S, n - 1)
         IN  shorter \cup { Append(s, x) : s \in { t \in shorter : Len(t) = n - 1 }, x \in S }

Streams == SeqsUpTo(Shapes, MaxStream)

\* Platform-assigned identifiers: unique, newest message first.
IdOf(i) == 100 - i

MediaFilters == {"image", "audio", "video", "other", "all"}
\* media_max_size: <<>> is None (unlimited).
MaxSizes == { <<>>, <<2000000>>, <<5000000>> }

\* ------------------------------------------------------------ pure helpers

Max(a, b) == IF a >= b THEN a ELSE b

\* str.lower() on the mime tokens in use.
Lower(tok) ==
    CASE tok = "Video" -> "video"
      [] tok = "AUDIO" -> "audio"
      [] tok = "Image" -> "image"
      [] OTHER -> tok

\* 'Word' in type(attr).__name__
InName(word, name) == \E k \in 1..Len(name) : name[k] = word

\* Truth value of an optional string (None and '' are false).
Truthy(opt) == opt # <<>> /\ opt[1] # ""

\* An optional value inside an f-string: None prints as "None".
Str(opt) == IF opt = <<>> THEN "None" ELSE opt[1]

\* The first attribute of attrs[k..] that decides a type, or "" if none does.
RECURSIVE AttrType(_, _)
AttrType(attrs, k) ==
    IF k > Len(attrs) THEN ""
    ELSE IF InName("Audio", attrs[k].name) \/ InName("Voice", attrs[k].name) THEN "audio"
    ELSE IF InName("Video", attrs[k].name) THEN "video"
    ELSE IF InName("Photo", attrs[k].name) THEN "image"
    ELSE AttrType(attrs, k + 1)

\* (variant: the attribute loop is in the else branch of the mime check)
get_media_type_AttrsIfNoMime(media) ==
    IF media.variant = "none" THEN "None"
    ELSE IF media.variant = "photo" THEN "image"
    ELSE IF media.variant = "document" THEN
        LET mime == IF media.mime_type # <<>> THEN Lower(media.mime_type[1]) ELSE ""
            byAttr == AttrType(media.attributes, 1)
        IN  IF mime \in {"image", "audio", "video"} THEN mime
            ELSE IF media.mime_type = <<>> /\ byAttr # "" THEN byAttr
            ELSE "other"
    ELSE "other"

\* get_media_type(message): 'image', 'audio', 'video', 'other' or "None".
get_media_type(media) ==
    IF media.variant = "none" THEN "None"
    ELSE IF media.variant = "photo" THEN "image"
    ELSE IF media.variant = "document" THEN
        LET mime == IF media.mime_type # <<>> THEN Lower(media.mime_type[1]) ELSE ""
            byAttr == AttrType(media.attributes, 1)
        IN  IF mime = "image" THEN "image"
            ELSE IF mime = "audio" THEN "audio"
            ELSE IF mime = "video" THEN "video"
            ELSE IF byAttr # "" THEN byAttr
            ELSE "other"
    ELSE "other"

RECURSIVE MaxSize(_, _)
MaxSize(szs, k) ==
    IF k > Len(szs) THEN 0
    ELSE IF szs[k] = <<>> THEN MaxSize(szs, k + 1)
    ELSE Max(szs[k][1], MaxSize(szs, k + 1))

\* get_media_size(message): bytes, 0 if not available.
get_media_size(media) ==
    IF media.variant = "none" THEN 0
    ELSE IF media.variant = "document" THEN media.size
    ELSE IF media.variant = "photo" THEN MaxSize(media.sizes, 1)
    ELSE 0

\* f"{n:,}": the decimal groups of n, most significant first (the groups
\* after the first are printed on three digits).
RECURSIVE Thousands(_)
Thousands(n) == IF n < 1000 THEN <<n>> ELSE Append(Thousands(n \div 1000), n % 1000)

\* The sender name of a message (the value, which may be None).
sender_name(sender) ==
    IF sender.kind = "none" THEN <<"Unknown">>
    ELSE IF Truthy(sender.username) THEN sender.username
    ELSE IF sender.kind = "user" THEN sender.first_name
    ELSE <<"Unknown">>

\* n on w decimal digits.
RECURSIVE Pad(_, _)
Pad(n, w) == IF w = 0 THEN <<>> ELSE Append(Pad(n \div 10, w - 1), n % 10)

\* message.date.strftime('%Y-%m-%d %H:%M:%S') if message.date else ''
timestamp(date) ==
    IF date = <<>> THEN <<>>
    ELSE << Pad(date[1], 4), Pad(date[2], 2), Pad(date[3], 2),
            Pad(date[4], 2), Pad(date[5], 2), Pad(date[6], 2) >>

\* The extension of the first attribute that has a file_name, "" if none has.
RECURSIVE FirstExt(_, _)
FirstExt(attrs, k) ==
    IF k > Len(attrs) THEN ""
    ELSE IF attrs[k].file_name # <<>> THEN attrs[k].file_name[2]
    ELSE FirstExt(attrs, k + 1)

\* (variant: a photo gets no extension)
media_filename_NoPhotoExt(id, media) ==
    [id |-> id,
     ext |-> IF media.variant = "document" THEN FirstExt(media.attributes, 1) ELSE ""]

\* media_filename: msg_<id><ext>
media_filename(id, media) ==
    [id |-> id,
     ext |-> IF media.variant = "photo" THEN ".jpg"
             ELSE IF media.variant = "document" THEN FirstExt(media.attributes, 1)
             ELSE ""]

\* The type filter: the reason it rejects with, <<>> when it lets the item pass.
TypeFilter(filter, mtype) ==
    IF filter # "all" /\ mtype # filter
    THEN << [k |-> "filtered", type |-> mtype] >>
    ELSE <<>>

\* (variant: media_size >= media_max_size)
SizeFilter_AtLeast(maxsize, msize) ==
    IF maxsize # <<>> /\ maxsize[1] # 0 /\ msize >= maxsize[1]
    THEN << [k |-> "too large", bytes |-> Thousands(msize)] >>
    ELSE <<>>

\* The size filter, applied to an item the type filter let pass.
SizeFilter(maxsize, msize) ==
    IF maxsize # <<>> /\ maxsize[1] # 0 /\ msize > maxsize[1]
    THEN << [k |-> "too large", bytes |-> Thousands(msize)] >>
    ELSE <<>>

\* (variant: the size check is not guarded by should_download)
skip_reason_SizeUnguarded(filter, maxsize, media) ==
    LET bySize == SizeFilter(maxsize, get_media_size(media))
    IN  IF bySize # <<>> THEN bySize
        ELSE TypeFilter(filter, get_media_type(media))

\* skip_reason after both filters (<<>> : should_download stays True).
skip_reason(filter, maxsize, media) ==
    LET byType == TypeFilter(filter, get_media_type(media))
    IN  IF byType # <<>> THEN byType
        ELSE SizeFilter(maxsize, get_media_size(media))

\* -------------------------------------------------------------------- state

VARIABLES
    download_media,   \* --download-media
    media_filter,     \* --media-filter
    media_max_size,   \* --media-max-size (<<>> : None)
    stream,           \* the messages client.iter_messages(chat) will deliver
    pc,               \* the await the coroutine is suspended at
    pos,              \* messages pulled from the stream so far
    chat_file,        \* <chat>_history.txt on disk: "absent", "old" (an earlier run's) or "new"
    f,                \* the transcript file object: "unopened", "open", "closed"
    transcript,       \* the lines written to f, in order
    counters_bound,   \* lines 132-136 have run
    message_count, media_count, media_skipped, media_filtered, media_failed,
    retry_count,      \* of the retry cycle in progress
    exit,             \* how control left the try body ("" while inside)
    summary,          \* the final summary printed (<<>> : not printed)
    disconnects,      \* calls of client.disconnect() completed
    log,              \* history: the download attempts and delays of the message last pulled
    attempts_total,   \* history: calls of client.download_media() that have ended, in the run
    cli,              \* main(): the command line and what the parser has done with it
    probe             \* a pure function's arguments and results, when one is applied alone

vars == << download_media, media_filter, media_max_size, stream, pc, pos, chat_file, f,
           transcript, counters_bound, message_count, media_count, media_skipped,
           media_filtered, media_failed, retry_count, exit, summary, disconnects, log,
           attempts_total, cli, probe >>

\* The state of the other entry points, which download_chat never touches.
aside == << cli, probe >>

\* cli and probe while download_chat is what runs.
NoCli == [pc |-> "none"]
NoProbe == [fn |-> "none"]

config == << download_media, media_filter, media_max_size, stream >>
counters == << message_count, media_count, media_skipped, media_filtered, media_failed >>

Init ==
    /\ download_media \in BOOLEAN
    /\ media_filter \in MediaFilters
    /\ media_max_size \in MaxSizes
    /\ stream \in Streams
    /\ chat_file \in {"absent", "old"}
    /\ pc = "start"
    /\ pos = 0
    /\ f = "unopened"
    /\ transcript = <<>>
    /\ counters_bound = FALSE
    /\ message_count = 0 /\ media_count = 0 /\ media_skipped = 0
    /\ media_filtered = 0 /\ media_failed = 0
    /\ retry_count = 0
    /\ exit = ""
    /\ summary = <<>>
    /\ disconnects = 0
    /\ log = <<>>
    /\ attempts_total = 0
    /\ cli = NoCli
    /\ probe = NoProbe

\* --------------------------------------------------- pieces of the handlers

\* (variant: the file is opened without a with statement)
WithExit_NoClose(file) == file

\* with open(...) as f: leaving the block, normally or by an exception,
\* closes the file if it was opened.
WithExit(file) == IF file = "open" THEN "closed" ELSE file

\* The line f.write produces for a non-empty text.
TextLine(i, m) ==
    [msg |-> i, ts |-> timestamp(m.date), sender |-> Str(sender_name(m.sender)),
     text |-> m.message]

\* The line f.write produces for a media annotation.
MediaLine(i, m, note) ==
    [msg |-> i, ts |-> timestamp(m.date), sender |-> Str(sender_name(m.sender)),
     MEDIA |-> note]

\* if message.message: f.write(...)
TextWrite(i, m) == IF m.message # "" THEN << TextLine(i, m) >> ELSE <<>>

\* (variant: the download_media flag is not consulted)
Disposition_FlagIgnored(dl, filter, maxsize, media) ==
    IF media.variant = "none" THEN "none"
    ELSE IF skip_reason(filter, maxsize, media) # <<>> THEN "rejected"
    ELSE "download"

\* (variant: should_download is not consulted)
Disposition_FilterIgnored(dl, filter, maxsize, media) ==
    IF media.variant = "none" THEN "none"
    ELSE IF ~dl THEN "not downloaded"
    ELSE "download"

\* What the loop body does with the media of a message before any await:
\* "none", "not downloaded", "rejected" or "download".
Disposition(dl, filter, maxsize, media) ==
    IF media.variant = "none" THEN "none"
    ELSE IF ~dl THEN "not downloaded"
    ELSE IF skip_reason(filter, maxsize, media) # <<>> THEN "rejected"
    ELSE "download"

\* The annotation written before any await, if one is.
EarlyNote(dl, filter, maxsize, media) ==
    LET d == Disposition(dl, filter, maxsize, media)
    IN  IF d = "not downloaded" THEN << [k |-> "not downloaded"] >>
        ELSE IF d = "rejected" THEN skip_reason(filter, maxsize, media)
        ELSE <<>>

\* (variant: the annotation is written before the text)
BodyWrites_MediaFirst(i, m, dl, filter, maxsize) ==
    LET note == EarlyNote(dl, filter, maxsize, m.media)
    IN  (IF note = <<>> THEN <<>> ELSE << MediaLine(i, m, note[1]) >>) \o TextWrite(i, m)

\* The lines the loop body writes for message i before any await, in order.
BodyWrites(i, m, dl, filter, maxsize) ==
    LET note == EarlyNote(dl, filter, maxsize, m.media)
    IN  TextWrite(i, m) \o (IF note = <<>> THEN <<>> ELSE << MediaLine(i, m, note[1]) >>)

\* (variant: except TelegramTimeoutError)
Caught_TimeoutOnly(e) == e = "Timeout"

\* except Exception: the errors a download attempt raises are all caught.
Caught(e) == TRUE

\* (variants: the comparison off by one, either way)
RetryExhausted_Late(rc) == rc > max_retries
RetryExhausted_Early(rc) == rc >= max_retries - 1

\* if retry_count >= max_retries
RetryExhausted(rc) == rc >= max_retries

\* (variant: download_success is not part of the condition)
LoopAgain_SuccessIgnored(rc, success) == rc < max_retries

\* while retry_count < max_retries and not download_success
LoopAgain(rc, success) == rc < max_retries /\ ~success

\* The final summary (lines 268-277).
Summary ==
    IF download_media
    THEN [total |-> message_count, downloaded |-> << media_count >>,
          filtered |-> IF media_filtered > 0 THEN << media_filtered >> ELSE <<>>,
          failed |-> IF media_failed > 0 THEN << media_failed >> ELSE <<>>,
          skipped |-> <<>>]
    ELSE [total |-> message_count, downloaded |-> <<>>, filtered |-> <<>>,
          failed |-> <<>>, skipped |-> << media_skipped >>]

\* ------------------------------------------------------------------ actions

\* await client.start() returns.
ClientStartOk ==
    /\ pc = "start"
    /\ pc' = "get_me"
    /\ UNCHANGED << aside, attempts_total >>
    /\ UNCHANGED << config, pos, chat_file, f, transcript, counters_bound, counters,
                    retry_count, exit, summary, disconnects, log >>

\* await client.get_me() returns.
GetMeOk ==
    /\ pc = "get_me"
    /\ pc' = "get_entity"
    /\ UNCHANGED << aside, attempts_total >>
    /\ UNCHANGED << config, pos, chat_file, f, transcript, counters_bound, counters,
                    retry_count, exit, summary, disconnects, log >>

\* client.start() or client.get_me() raises: the finally clause is next.
ClientFail ==
    /\ pc \in {"start", "get_me"}
    /\ exit' = "session_error"
    /\ pc' = "disconnect"
    /\ UNCHANGED << aside, attempts_total >>
    /\ UNCHANGED << config, pos, chat_file, f, transcript, counters_bound, counters,
                    retry_count, summary, disconnects, log >>

\* client.get_entity() returns: the transcript is opened for writing, the
\* counters are set and the first message is awaited.
GetEntityOk ==
    /\ pc = "get_entity"
    /\ chat_file' = "new"
    /\ f' = "open"
    /\ transcript' = <<>>
    /\ counters_bound' = TRUE
    /\ message_count' = 0 /\ media_count' = 0 /\ media_skipped' = 0
    /\ media_filtered' = 0 /\ media_failed' = 0
    /\ pc' = "iter"
    /\ UNCHANGED << aside, attempts_total >>
    /\ UNCHANGED << config, pos, retry_count, exit, summary, disconnects, log >>

\* (variant: the handler prints the error and does not return)
GetEntityFail_NoReturn ==
    /\ pc = "get_entity"
    /\ exit' = "not_found"
    /\ chat_file' = "new"
    /\ f' = "closed"
    /\ counters_bound' = TRUE
    /\ summary' = << Summary >>
    /\ pc' = "disconnect"
    /\ UNCHANGED << aside, attempts_total >>
    /\ UNCHANGED << config, pos, transcript, counters, retry_count, disconnects, log >>

\* client.get_entity() raises: the error is printed and the function returns.
GetEntityFail ==
    /\ pc = "get_entity"
    /\ exit' = "not_found"
    /\ pc' = "disconnect"
    /\ UNCHANGED << aside, attempts_total >>
    /\ UNCHANGED << config, pos, chat_file, f, transcript, counters_bound, counters,
                    retry_count, summary, disconnects, log >>

\* The stream delivers its next message; the loop body runs up to the first
\* download attempt, or to the end of the body when there is none.
NextMessage ==
    /\ pc = "iter"
    /\ pos < Len(stream)
    /\ LET i == pos + 1
           m == stream[i]
           d == Disposition(download_media, media_filter, media_max_size, m.media)
       IN  /\ pos' = i
           /\ message_count' = message_count + 1
           /\ transcript' = transcript \o
                  BodyWrites(i, m, download_media, media_filter, media_max_size)
           /\ media_skipped' = IF d = "not downloaded" THEN media_skipped + 1 ELSE media_skipped
           /\ media_filtered' = IF d = "rejected" THEN media_filtered + 1 ELSE media_filtered
           /\ retry_count' = IF d = "download" THEN 0 ELSE retry_count
           /\ pc' = IF d = "download" /\ LoopAgain(0, FALSE) THEN "download" ELSE "iter"
           /\ log' = <<>>
    /\ UNCHANGED << aside, attempts_total >>
    /\ UNCHANGED << config, chat_file, f, counters_bound, media_count, media_failed,
                    exit, summary, disconnects >>

\* client.download_media() returns.
DownloadOk ==
    /\ pc = "download"
    /\ attempts_total' = attempts_total + 1
    /\ media_count' = media_count + 1
    /\ transcript' = Append(transcript,
           MediaLine(pos, stream[pos],
                     [k |-> "file", name |-> media_filename(IdOf(pos), stream[pos].media)]))
    /\ log' = Append(log, "ok")
    /\ pc' = IF LoopAgain(retry_count, TRUE) THEN "download" ELSE "iter"
    /\ UNCHANGED aside
    /\ UNCHANGED << config, pos, chat_file, f, counters_bound, message_count, media_skipped,
                    media_filtered, media_failed, retry_count, exit, summary, disconnects >>

\* client.download_media() raises e.
DownloadFail(e) ==
    /\ pc = "download"
    /\ attempts_total' = attempts_total + 1
    /\ log' = Append(log, e)
    /\ IF Caught(e)
       THEN /\ retry_count' = retry_count + 1
            /\ IF RetryExhausted(retry_count + 1)
               THEN /\ media_failed' = media_failed + 1
                    /\ transcript' = Append(transcript,
                           MediaLine(pos, stream[pos], [k |-> "Download failed", error |-> e]))
                    /\ pc' = IF LoopAgain(retry_count + 1, FALSE) THEN "download" ELSE "iter"
               ELSE /\ pc' = "sleep"
                    /\ UNCHANGED << media_failed, transcript >>
            /\ UNCHANGED << f, exit >>
       ELSE /\ f' = WithExit(f)
            /\ exit' = "download_error"
            /\ pc' = "disconnect"
            /\ UNCHANGED << retry_count, media_failed, transcript >>
    /\ UNCHANGED aside
    /\ UNCHANGED << config, pos, chat_file, counters_bound, message_count, media_count,
                    media_skipped, media_filtered, summary, disconnects >>

\* await asyncio.sleep(3) returns; the while condition is evaluated again.
SleepDone ==
    /\ pc = "sleep"
    /\ log' = Append(log, "sleep")
    /\ pc' = IF LoopAgain(retry_count, FALSE) THEN "download" ELSE "iter"
    /\ UNCHANGED << aside, attempts_total >>
    /\ UNCHANGED << config, pos, chat_file, f, transcript, counters_bound, counters,
                    retry_count, exit, summary, disconnects >>

\* The stream is exhausted: the file is closed and the summary printed.
StreamEnd ==
    /\ pc = "iter"
    /\ pos = Len(stream)
    /\ f' = WithExit(f)
    /\ summary' = << Summary >>
    /\ exit' = "complete"
    /\ pc' = "disconnect"
    /\ UNCHANGED << aside, attempts_total >>
    /\ UNCHANGED << config, pos, chat_file, transcript, counters_bound, counters,
                    retry_count, disconnects, log >>

\* client.iter_messages() raises while the next message is awaited.
StreamError ==
    /\ pc = "iter"
    /\ f' = WithExit(f)
    /\ exit' = "stream_error"
    /\ pc' = "disconnect"
    /\ UNCHANGED << aside, attempts_total >>
    /\ UNCHANGED << config, pos, chat_file, transcript, counters_bound, counters,
                    retry_count, summary, disconnects, log >>

\* (variant: the body is not inside try ... finally)
Interrupt_NoFinally ==
    /\ pc \in {"start", "get_me", "get_entity", "iter", "download", "sleep"}
    /\ f' = WithExit(f)
    /\ exit' = "interrupt"
    /\ pc' = "end"
    /\ UNCHANGED << aside, attempts_total >>
    /\ UNCHANGED << config, pos, chat_file, transcript, counters_bound, counters,
                    retry_count, summary, disconnects, log >>

\* An external interrupt (KeyboardInterrupt, cancellation) is raised at the
\* await the coroutine is suspended at; no handler of the try body catches it.
Interrupt ==
    /\ pc \in {"start", "get_me", "get_entity", "iter", "download", "sleep"}
    /\ f' = WithExit(f)
    /\ exit' = "interrupt"
    /\ pc' = "disconnect"
    /\ UNCHANGED << aside, attempts_total >>
    /\ UNCHANGED << config, pos, chat_file, transcript, counters_bound, counters,
                    retry_count, summary, disconnects, log >>

\* finally: await client.disconnect()
Disconnect ==
    /\ pc = "disconnect"
    /\ disconnects' = disconnects + 1
    /\ pc' = "end"
    /\ UNCHANGED << aside, attempts_total >>
    /\ UNCHANGED << config, pos, chat_file, f, transcript, counters_bound, counters,
                    retry_count, exit, summary, log >>

Next ==
    \/ ClientStartOk
    \/ GetMeOk
    \/ ClientFail
    \/ GetEntityOk
    \/ GetEntityFail
    \/ NextMessage
    \/ DownloadOk
    \/ \E e \in Errors : DownloadFail(e)
    \/ SleepDone
    \/ StreamEnd
    \/ StreamError
    \/ Interrupt
    \/ Disconnect

Spec == Init /\ [][Next]_vars

\* The event loop resumes the coroutine whenever the awaited operation has
\* an outcome, and every awaited operation has one.
FairSpec == Spec /\ WF_vars(Next)

\* --------------------------------------------------------------- main()

\* sys.argv[0]; TLA+ sequences start at 1, so sys.argv[k] is argv[k + 1].
Prog == "telegram_backup.py"

\* The tokens command lines are made of after the required arguments.
OptionTokens ==
    { "--download-media", "--media-filter", "--media-max-size", "--output-dir",
      "--bogus", "--help", "-h", "Image", "jpeg", "0", "-5", "5000000", "out" }

\* The beginnings of a command line: too short, a non-numeric api_id, and
\* the three required arguments in order.
Heads ==
    { << Prog >>, << Prog, "12345" >>, << Prog, "12345", "hash" >>,
      << Prog, "abc", "hash", "chat" >>, << Prog, "--help" >>,
      << Prog, "12345", "hash", "chat" >> }

Argvs ==
    { h \o t : h \in Heads, t \in SeqsUpTo(OptionTokens, MaxOptionTokens) }

\* int(tok): << n >>, or <<>> when int() raises ValueError.
IntOf(tok) ==
    CASE tok = "12345" -> << 12345 >>
      [] tok = "5000000" -> << 5000000 >>
      [] tok = "0" -> << 0 >>
      [] tok = "-5" -> << -5 >>
      [] OTHER -> <<>>

\* tok.startswith('--')
StartsWithDashes(tok) ==
    tok \in { "--download-media", "--media-filter", "--media-max-size", "--output-dir",
              "--bogus", "--help" }

\* valid_options: the number of arguments each option takes.
valid_options ==
    [ o \in { "--download-media", "--media-filter", "--media-max-size", "--output-dir" }
        |-> IF o = "--download-media" THEN 0 ELSE 1 ]

\* '--help' in sys.argv or '-h' in sys.argv
HelpAsked(argv) == \E k \in 1..Len(argv) : argv[k] \in { "--help", "-h" }

\* The defaults of the optional arguments (lines 355-358).
DefaultOptions ==
    [ download_media |-> FALSE, output_dir |-> "backup", media_filter |-> "all",
      media_max_size |-> <<>> ]

\* if media_max_size <= 0: error
MaxSizeOk(n) == n > 0

\* The option loop from index i on (lines 362-410): the options parsed, or
\* the error it stops at with sys.exit(1).
RECURSIVE ParseOptions(_, _, _)
ParseOptions(argv, i, opts) ==
    IF i > Len(argv) THEN [ error |-> "", opts |-> opts ]
    ELSE LET arg == argv[i]
             missing == i + 1 > Len(argv)
         IN  IF ~StartsWithDashes(arg) THEN [ error |-> "invalid argument", opts |-> opts ]
             ELSE IF arg \notin DOMAIN valid_options
                  THEN [ error |-> "unknown option", opts |-> opts ]
             ELSE IF arg = "--download-media"
                  THEN ParseOptions(argv, i + 1, [ opts EXCEPT !.download_media = TRUE ])
             ELSE IF arg = "--output-dir"
                  THEN IF missing THEN [ error |-> "requires a directory path", opts |-> opts ]
                       ELSE ParseOptions(argv, i + 2, [ opts EXCEPT !.output_dir = argv[i + 1] ])
             ELSE IF arg = "--media-filter"
                  THEN IF missing THEN [ error |-> "requires a media type", opts |-> opts ]
                       ELSE IF Lower(argv[i + 1]) \notin MediaFilters
                            THEN [ error |-> "invalid media filter", opts |-> opts ]
                       ELSE ParseOptions(argv, i + 2,
                                [ opts EXCEPT !.media_filter = Lower(argv[i + 1]) ])
             ELSE IF missing THEN [ error |-> "requires a size in bytes", opts |-> opts ]
                  ELSE IF IntOf(argv[i + 1]) = <<>>
                       THEN [ error |-> "invalid media max size", opts |-> opts ]
                  ELSE IF ~MaxSizeOk(IntOf(argv[i + 1])[1])
                       THEN [ error |-> "max size must be greater than 0", opts |-> opts ]
                  ELSE ParseOptions(argv, i + 2,
                           [ opts EXCEPT !.media_max_size = IntOf(argv[i + 1]) ])

\* main() up to sys.exit() or to the call of asyncio.run (lines 324-410).
ParseArgs(argv) ==
    IF HelpAsked(argv) THEN [ code |-> << 0 >>, error |-> "help", opts |-> DefaultOptions ]
    ELSE IF Len(argv) < 4
         THEN [ code |-> << 1 >>, error |-> "missing required arguments", opts |-> DefaultOptions ]
    ELSE IF IntOf(argv[2]) = <<>>
         THEN [ code |-> << 1 >>, error |-> "invalid api_id", opts |-> DefaultOptions ]
    ELSE LET r == ParseOptions(argv, 5, DefaultOptions)
         IN  IF r.error # "" THEN [ code |-> << 1 >>, error |-> r.error, opts |-> r.opts ]
             ELSE [ code |-> <<>>, error |-> "", opts |-> r.opts ]

\* The exit status of the process once asyncio.run() is over: it returned
\* (0), an exception went through (1), or KeyboardInterrupt did (130).
StatusOf(how) ==
    IF how \in { "complete", "not_found" } THEN 0
    ELSE IF how = "interrupt" THEN 130
    ELSE 1

CliInit ==
    /\ cli \in { [ pc |-> "main", argv |-> a, code |-> <<>>, error |-> "",
                   output_dir |-> "", dirs_made |-> FALSE, client_made |-> FALSE ]
                 : a \in Argvs }
    /\ probe = NoProbe
    /\ download_media = FALSE /\ media_filter = "all" /\ media_max_size = <<>>
    /\ stream \in SeqsUpTo(Shapes, 1)
    /\ chat_file = "absent"
    /\ pc = "unstarted"
    /\ pos = 0
    /\ f = "unopened"
    /\ transcript = <<>>
    /\ counters_bound = FALSE
    /\ message_count = 0 /\ media_count = 0 /\ media_skipped = 0
    /\ media_filtered = 0 /\ media_failed = 0
    /\ retry_count = 0
    /\ exit = ""
    /\ summary = <<>>
    /\ disconnects = 0
    /\ log = <<>>
    /\ attempts_total = 0

\* main() runs: it ends in sys.exit(), or it calls download_chat, which makes
\* the directories and the client and suspends at client.start().
Main ==
    /\ cli.pc = "main"
    /\ LET r == ParseArgs(cli.argv)
       IN  IF r.code # <<>>
           THEN /\ cli' = [ cli EXCEPT !.pc = "exited", !.code = r.code, !.error = r.error ]
                /\ UNCHANGED << download_media, media_filter, media_max_size, pc >>
           ELSE /\ cli' = [ cli EXCEPT !.pc = "running", !.output_dir = r.opts.output_dir,
                                       !.dirs_made = TRUE, !.client_made = TRUE ]
                /\ download_media' = r.opts.download_media
                /\ media_filter' = r.opts.media_filter
                /\ media_max_size' = r.opts.media_max_size
                /\ pc' = "start"
    /\ UNCHANGED << probe, attempts_total, stream, pos, chat_file, f, transcript,
                    counters_bound, counters, retry_count, exit, summary, disconnects, log >>

\* asyncio.run() is over and the process ends.
MainExit ==
    /\ cli.pc = "running"
    /\ pc = "end"
    /\ cli' = [ cli EXCEPT !.pc = "exited", !.code = << StatusOf(exit) >> ]
    /\ UNCHANGED << probe, attempts_total, config, pc, pos, chat_file, f, transcript,
                    counters_bound, counters, retry_count, exit, summary, disconnects, log >>

CliNext ==
    \/ Main
    \/ MainExit
    \/ Next

CliSpec == CliInit /\ [][CliNext]_vars

\* --------------------------------------------------------------- C11

\* The tokens from index i on are a sequence of well-formed options.
RECURSIVE WellFormedTail(_, _)
WellFormedTail(argv, i) ==
    \/ i > Len(argv)
    \/ argv[i] = "--download-media" /\ WellFormedTail(argv, i + 1)
    \/ /\ i + 1 <= Len(argv)
       /\ \/ argv[i] = "--output-dir"
          \/ argv[i] = "--media-filter" /\ Lower(argv[i + 1]) \in MediaFilters
          \/ argv[i] = "--media-max-size" /\ IntOf(argv[i + 1]) # <<>>
                                          /\ IntOf(argv[i + 1])[1] > 0
       /\ WellFormedTail(argv, i + 2)

\* A command line with one of the defects the claim lists.
Malformed(argv) ==
    \/ Len(argv) < 4
    \/ IntOf(argv[2]) = <<>>
    \/ ~WellFormedTail(argv, 5)

ExportStarted == pc # "unstarted" \/ cli.dirs_made \/ cli.client_made

\* C11: every malformed command line that is not a help request ends in exit
\* code 1 with the export not started, and exit code 0 comes only from help
\* or from a successful export.
C11_ConfigurationErrors ==
    /\ (Malformed(cli.argv) /\ ~HelpAsked(cli.argv)) =>
           ~ExportStarted /\ (cli.pc = "exited" => cli.code = << 1 >>)
    /\ (cli.pc = "exited" /\ cli.code = << 0 >>) => (HelpAsked(cli.argv) \/ exit = "complete")

\* What holds of main(): a help request (--help or -h anywhere) exits with 0
\* and starts nothing; every other malformed command line exits with 1 with
\* the export not started; a well-formed one starts the export; exit code 0
\* comes from help or from download_chat returning, which it also does when
\* the chat is not found.
MalformedExitsEarly ==
    /\ (Malformed(cli.argv) \/ HelpAsked(cli.argv)) =>
           /\ ~ExportStarted
           /\ cli.pc = "exited" =>
                  cli.code = IF HelpAsked(cli.argv) THEN << 0 >> ELSE << 1 >>
    /\ (~Malformed(cli.argv) /\ ~HelpAsked(cli.argv) /\ cli.pc # "main") => ExportStarted
    /\ (cli.pc = "exited" /\ cli.code = << 0 >>) =>
           (HelpAsked(cli.argv) \/ exit \in { "complete", "not_found" })

\* A non-positive max size after a valid option: exit code 1, nothing started.
C11_Witness ==
    /\ cli.pc = "exited" /\ cli.code = << 1 >> /\ ~ExportStarted
    /\ cli.argv = << Prog, "12345", "hash", "chat", "--media-max-size", "0" >>

\* --------------------------------------------------------------- C12

\* The senders and dates the three messages of the scenario may carry.
ScenarioSenders == { NoSender, User(<<"alice">>, <<"Alice">>), User(<<>>, <<"Bob">>) }
ScenarioDates == { <<>>, SomeDate }

\* (text-only "hello"), (photo, 2,000,000 bytes), (video document, 10,000,000 bytes)
ScenarioStreams ==
    { << [message |-> "hello", media |-> NoMedia, sender |-> s[1], date |-> d[1]],
         [message |-> "", media |-> Photo(<< <<1000>>, <<2000000>> >>),
          sender |-> s[2], date |-> d[2]],
         [message |-> "", media |-> Document(<<"video", "mp4">>,
                                    <<AttrVideo, AttrFilename("clip", ".mp4")>>, 10000000),
          sender |-> s[3], date |-> d[3]] >>
      : s \in [1..3 -> ScenarioSenders], d \in [1..3 -> ScenarioDates] }

\* --download-media --media-filter all --media-max-size 5000000
ScenarioInit ==
    /\ download_media = TRUE
    /\ media_filter = "all"
    /\ media_max_size = << 5000000 >>
    /\ stream \in ScenarioStreams
    /\ chat_file \in {"absent", "old"}
    /\ pc = "start"
    /\ pos = 0
    /\ f = "unopened"
    /\ transcript = <<>>
    /\ counters_bound = FALSE
    /\ message_count = 0 /\ media_count = 0 /\ media_skipped = 0
    /\ media_filtered = 0 /\ media_failed = 0
    /\ retry_count = 0
    /\ exit = ""
    /\ summary = <<>>
    /\ disconnects = 0
    /\ log = <<>>
    /\ attempts_total = 0
    /\ cli = NoCli
    /\ probe = NoProbe

\* The run with nothing failing: every call returns, the download succeeds.
ScenarioNext ==
    \/ ClientStartOk
    \/ GetMeOk
    \/ GetEntityOk
    \/ NextMessage
    \/ DownloadOk
    \/ StreamEnd
    \/ Disconnect

ScenarioSpec == ScenarioInit /\ [][ScenarioNext]_vars

\* The lines and counters of the scenario, the number of lines apart.
ScenarioOutcome ==
    /\ \E k \in 1..Len(transcript) :
           /\ transcript[k].msg = 1 /\ "text" \in DOMAIN transcript[k]
           /\ transcript[k].text = "hello"
    /\ \E k \in 1..Len(transcript) :
           /\ transcript[k].msg = 2 /\ "MEDIA" \in DOMAIN transcript[k]
           /\ transcript[k].MEDIA = [k |-> "file", name |-> [id |-> IdOf(2), ext |-> ".jpg"]]
    /\ \E k \in 1..Len(transcript) :
           /\ transcript[k].msg = 3 /\ "MEDIA" \in DOMAIN transcript[k]
           /\ transcript[k].MEDIA = [k |-> "too large", bytes |-> << 10, 0, 0 >>]
    /\ \A j, k \in 1..Len(transcript) : j < k => transcript[j].msg < transcript[k].msg
    /\ media_count = 1 /\ media_filtered = 1 /\ media_failed = 0

\* C12 as stated: the completed scenario leaves a transcript of 4 lines (the
\* text, the downloaded photo, the video too large at 10,000,000 bytes) and
\* media_downloaded=1, media_filtered=1, media_failed=0.
C12_ThreeMessageScenario ==
    exit = "complete" => Len(transcript) = 4 /\ ScenarioOutcome

\* C12, amended: the same lines and counters, in a transcript of 3 lines, one
\* for each message.
C12_ThreeMessageScenarioAmended ==
    exit = "complete" => Len(transcript) = 3 /\ ScenarioOutcome

C12_Witness ==
    /\ pc = "end" /\ exit = "complete" /\ message_count = 3
    /\ download_media /\ media_max_size = << 5000000 >>
    /\ stream[2].media.variant = "photo" /\ stream[3].media.size = 10000000

\* ------------------------------------- the run in which every call returns

\* download_chat when the session starts, the chat resolves, the stream ends
\* and no interrupt arrives; download attempts succeed or fail at will.
RunNext ==
    \/ ClientStartOk
    \/ GetMeOk
    \/ GetEntityOk
    \/ NextMessage
    \/ DownloadOk
    \/ \E e \in Errors : DownloadFail(e)
    \/ SleepDone
    \/ StreamEnd
    \/ Disconnect

\* Every awaited call ends: a download returns or raises, a delay elapses.
RunSpec == Init /\ [][RunNext]_vars /\ WF_vars(RunNext)

\* ------------------------------------------- the pure functions, applied alone

AttrSticker == [name |-> <<"Document", "Attribute", "Sticker">>, file_name |-> <<>>]
AttrVoice == [name |-> <<"Document", "Attribute", "Voice">>, file_name |-> <<>>]
AttrPhoto == [name |-> <<"Document", "Attribute", "Photo">>, file_name |-> <<>>]

\* doc.mime_type: None, and strings of each top-level token, in mixed case.
Mimes ==
    { <<>>, <<"Image", "png">>, <<"AUDIO", "ogg">>, <<"Video", "mp4">>,
      <<"application", "pdf">> }

\* doc.attributes
AttrLists ==
    { <<>>, << AttrAudio >>, << AttrSticker, AttrVideo >>, << AttrVoice >>,
      << AttrFilename("a", ".bin"), AttrPhoto, AttrAudio >>, << AttrSticker >> }

\* Sizes at, around and away from the configurable maxima.
DocSizes == { 0, 1999999, 2000000, 2000001, 5000000, 5000001 }

\* message.media
Payloads ==
    { NoMedia, OtherMedia, Photo(<<>>), Photo(<< <<>>, <<1000>>, <<2000000>> >>),
      Photo(<< <<5000001>>, <<>> >>) }
    \cup { Document(m, a, z) : m \in Mimes, a \in AttrLists, z \in DocSizes }

\* message.sender
Senders ==
    { NoSender, Channel(<<>>), Channel(<<"news">>) }
    \cup { User(u, n) : u \in { <<>>, <<"">>, <<"alice">> },
                        n \in { <<>>, <<"">>, <<"Alice">> } }

\* A function and its arguments; res is <<>> until it has been applied.
ProbeInputs ==
    { [fn |-> "get_media_type", media |-> m, res |-> <<>>] : m \in Payloads }
    \cup { [fn |-> "skip_reason", filter |-> t, maxsize |-> x, media |-> m, res |-> <<>>]
           : t \in MediaFilters, x \in MaxSizes, m \in Payloads \ { NoMedia } }
    \cup { [fn |-> "sender_name", sender |-> u, res |-> <<>>] : u \in Senders }

ProbeInit ==
    /\ probe \in ProbeInputs
    /\ cli = NoCli
    /\ download_media = FALSE /\ media_filter = "all" /\ media_max_size = <<>>
    /\ stream = <<>>
    /\ chat_file = "absent"
    /\ pc = "unstarted"
    /\ pos = 0
    /\ f = "unopened"
    /\ transcript = <<>>
    /\ counters_bound = FALSE
    /\ message_count = 0 /\ media_count = 0 /\ media_skipped = 0
    /\ media_filtered = 0 /\ media_failed = 0
    /\ retry_count = 0
    /\ exit = ""
    /\ summary = <<>>
    /\ disconnects = 0
    /\ log = <<>>
    /\ attempts_total = 0

\* media_type = get_media_type(message)
ApplyGetMediaType ==
    /\ probe.fn = "get_media_type" /\ probe.res = <<>>
    /\ probe' = [ probe EXCEPT !.res = << get_media_type(probe.media) >> ]
    /\ UNCHANGED << cli, attempts_total, config, pc, pos, chat_file, f, transcript,
                    counters_bound, counters, retry_count, exit, summary, disconnects, log >>

\* The two filters of the loop body, on a message that carries media.
ApplySkipReason ==
    /\ probe.fn = "skip_reason" /\ probe.res = <<>>
    /\ probe' = [ probe EXCEPT
                    !.res = << skip_reason(probe.filter, probe.maxsize, probe.media) >> ]
    /\ UNCHANGED << cli, attempts_total, config, pc, pos, chat_file, f, transcript,
                    counters_bound, counters, retry_count, exit, summary, disconnects, log >>

\* The sender name as the f-string of a transcript line prints it.
ApplySenderName ==
    /\ probe.fn = "sender_name" /\ probe.res = <<>>
    /\ probe' = [ probe EXCEPT !.res = << Str(sender_name(probe.sender)) >> ]
    /\ UNCHANGED << cli, attempts_total, config, pc, pos, chat_file, f, transcript,
                    counters_bound, counters, retry_count, exit, summary, disconnects, log >>

ProbeNext ==
    \/ ApplyGetMediaType
    \/ ApplySkipReason
    \/ ApplySenderName

ProbeSpec == ProbeInit /\ [][ProbeNext]_vars

\* ------------------------------------------------- vocabulary of the claims

HasMedia(i) == stream[i].media.variant # "none"
IsMediaLine(line) == "MEDIA" \in DOMAIN line

\* Messages among the first n of the stream that carry media.
MediaSeen(n) == Cardinality({ i \in 1..n : HasMedia(i) })

\* A message boundary: the next message is awaited, or the loop has ended.
AtBoundary == counters_bound /\ (pc = "iter" \/ exit = "complete")

\* The download attempts of the message last pulled, in order ("ok" or the
\* error text), and whether one of them succeeded.
Attempts == SelectSeq(log, LAMBDA x : x # "sleep")
Succeeded == \E k \in 1..Len(log) : log[k] = "ok"

\* The annotation lines of message i, in transcript order.
NotesOf(i) == SelectSeq(transcript, LAMBDA l : l.msg = i /\ IsMediaLine(l))

DispositionOf(i) ==
    Disposition(download_media, media_filter, media_max_size, stream[i].media)

IsPrefix(s, t) == Len(s) <= Len(t) /\ \A k \in 1..Len(s) : s[k] = t[k]

\* ---------------------------------------------------------------- C1

\* C1: at every message boundary and at normal completion, media_downloaded
\* + media_filtered + media_failed + media_skipped is the number of processed
\* messages with media; with downloads enabled the first three alone make
\* that number, with downloads disabled media_skipped alone does.
C1_CounterConservation ==
    AtBoundary =>
        /\ media_count + media_filtered + media_failed + media_skipped = MediaSeen(pos)
        /\ download_media => media_count + media_filtered + media_failed = MediaSeen(pos)
        /\ ~download_media => media_skipped = MediaSeen(pos)

C1_Witness ==
    /\ exit = "complete" /\ pos >= 2
    /\ media_count = 1 /\ media_failed = 1 /\ MediaSeen(pos) = 2

\* ---------------------------------------------------------------- C2

\* What a transcript line shows of its origin: the message, text or
\* annotation, and the text.
Shape(line) ==
    IF IsMediaLine(line) THEN [msg |-> line.msg, kind |-> "media", text |-> ""]
    ELSE [msg |-> line.msg, kind |-> "text", text |-> line.text]

TranscriptShape == [k \in 1..Len(transcript) |-> Shape(transcript[k])]

\* One block per message of the first n, in stream order.
RECURSIVE ExpectedBlocks(_)
ExpectedBlocks(n) ==
    IF n = 0 THEN <<>>
    ELSE ExpectedBlocks(n - 1)
         \o (IF stream[n].message # ""
             THEN << [msg |-> n, kind |-> "text", text |-> stream[n].message] >> ELSE <<>>)
         \o (IF HasMedia(n) THEN << [msg |-> n, kind |-> "media", text |-> ""] >> ELSE <<>>)

\* C2: at normal completion the transcript is the concatenation, in stream
\* order, of one block per message: the text line iff the text is non-empty,
\* then the annotation line iff the message has media; the timestamps play
\* no part in the order.
C2_TranscriptOrder ==
    exit = "complete" =>
        /\ TranscriptShape = ExpectedBlocks(Len(stream))
        /\ \A k \in 1..Len(transcript) :
               ~IsMediaLine(transcript[k]) =>
                   transcript[k] = TextLine(transcript[k].msg, stream[transcript[k].msg])

\* Two messages with text, the first one with media and dated after the second.
C2_Witness ==
    /\ exit = "complete" /\ Len(transcript) = 3
    /\ ~IsMediaLine(transcript[1]) /\ IsMediaLine(transcript[2]) /\ ~IsMediaLine(transcript[3])
    /\ transcript[1].ts = timestamp(LaterDate) /\ transcript[3].ts = timestamp(SomeDate)

\* ---------------------------------------------------------------- C3

\* The annotation the outcome of the message last pulled calls for.
NoteForLast ==
    CASE DispositionOf(pos) = "not downloaded" -> [k |-> "not downloaded"]
      [] DispositionOf(pos) = "rejected" ->
             skip_reason(media_filter, media_max_size, stream[pos].media)[1]
      [] DispositionOf(pos) = "download" /\ Succeeded ->
             [k |-> "file", name |-> media_filename(IdOf(pos), stream[pos].media)]
      [] OTHER -> [k |-> "Download failed", error |-> Attempts[Len(Attempts)]]

\* The annotations the disposition of message i allows.
NoteAllowed(i, note) ==
    CASE DispositionOf(i) = "not downloaded" -> note = [k |-> "not downloaded"]
      [] DispositionOf(i) = "rejected" ->
             note = skip_reason(media_filter, media_max_size, stream[i].media)[1]
      [] DispositionOf(i) = "download" ->
             \/ note = [k |-> "file", name |-> media_filename(IdOf(i), stream[i].media)]
             \/ \E e \in Errors : note = [k |-> "Download failed", error |-> e]
      [] OTHER -> FALSE

\* C3: at every message boundary, hence at normal completion, each processed
\* message with media has exactly one annotation line and a message without
\* media has none; the annotation is the one the outcome calls for (checked
\* against the attempts of the message that has just been processed, and
\* against the disposition for the earlier ones, whose lines never change).
C3_OneAnnotation ==
    AtBoundary =>
        /\ \A i \in 1..pos :
               IF HasMedia(i)
               THEN Len(NotesOf(i)) = 1 /\ NoteAllowed(i, NotesOf(i)[1].MEDIA)
               ELSE Len(NotesOf(i)) = 0
        /\ (pos >= 1 /\ HasMedia(pos)) =>
               /\ DispositionOf(pos) = "download" <=> Len(Attempts) > 0
               /\ NotesOf(pos)[1].MEDIA = NoteForLast

C3_Witness ==
    /\ exit = "complete" /\ Len(stream) = 2
    /\ HasMedia(1) /\ HasMedia(2)
    /\ NotesOf(1)[1].MEDIA.k = "Download failed"
    /\ NotesOf(2)[1].MEDIA.k = "file" /\ Len(Attempts) = 2

\* ---------------------------------------------------------------- C4

\* The message last pulled was accepted and no attempt has succeeded.
Exhausted == pos >= 1 /\ DispositionOf(pos) = "download" /\ ~Succeeded

\* C4: when the retry cycle of an accepted item ends without a success,
\* exactly 3 attempts were made, the step that ends it adds 1 to media_failed
\* and leaves media_downloaded alone, and the item's single annotation is the
\* failure line with the error text of the third attempt.
C4_RetryExhaustion ==
    /\ [](AtBoundary /\ Exhausted =>
              /\ Len(Attempts) = max_retries
              /\ Len(NotesOf(pos)) = 1
              /\ NotesOf(pos)[1].MEDIA =
                     [k |-> "Download failed", error |-> Attempts[max_retries]])
    /\ [][ (pc \in {"download", "sleep"} /\ pc' = "iter" /\ ~Succeeded')
               => (media_failed' = media_failed + 1 /\ media_count' = media_count) ]_vars
    /\ [][ media_failed' # media_failed
               => (pc = "download" /\ pc' = "iter" /\ ~Succeeded'
                   /\ media_failed' = media_failed + 1) ]_vars

\* The third error differs from the first two.
C4_Witness ==
    /\ AtBoundary /\ Exhausted
    /\ Attempts = << "Timeout", "Timeout", "Connection reset" >>
    /\ NotesOf(pos)[1].MEDIA.error = "Connection reset"
    /\ media_failed = 1 /\ media_count = 0

\* ---------------------------------------------------------------- C5

\* The type filter is set and message i's classification differs from it.
TypeMismatch(i) ==
    /\ HasMedia(i)
    /\ media_filter # "all"
    /\ get_media_type(stream[i].media) # media_filter

\* C5: with downloads enabled, an item whose classification differs from
\* the type filter is rejected with 'filtered (<classification>)' whatever
\* its size and the max size, and no download is attempted for it.
C5_FilterOrder ==
    download_media =>
        /\ \A i \in 1..pos :
               TypeMismatch(i) =>
                   /\ Len(NotesOf(i)) = 1
                   /\ NotesOf(i)[1].MEDIA =
                          [k |-> "filtered", type |-> get_media_type(stream[i].media)]
        /\ (pos >= 1 /\ TypeMismatch(pos)) => (log = <<>> /\ pc \notin {"download", "sleep"})

\* A mismatching item that is also larger than the max size.
C5_Witness ==
    /\ download_media /\ pos >= 1 /\ TypeMismatch(1)
    /\ media_max_size # <<>>
    /\ get_media_size(stream[1].media) > media_max_size[1]
    /\ NotesOf(1)[1].MEDIA.k = "filtered"
    /\ media_filtered = 1

\* ---------------------------------------------------------------- C6

\* C6: with downloads disabled, media_downloaded, media_filtered and
\* media_failed are 0 in every state, no download is attempted, and every
\* pulled message with media has exactly one '[MEDIA: not downloaded]' line
\* and counts once in media_skipped.
C6_DownloadsDisabled ==
    ~download_media =>
        /\ media_count = 0 /\ media_filtered = 0 /\ media_failed = 0
        /\ media_skipped = MediaSeen(pos)
        /\ log = <<>> /\ pc \notin {"download", "sleep"}
        /\ \A i \in 1..pos :
               HasMedia(i) =>
                   /\ Len(NotesOf(i)) = 1
                   /\ NotesOf(i)[1].MEDIA = [k |-> "not downloaded"]

C6_Witness ==
    /\ ~download_media /\ pos >= 2 /\ media_skipped = 2
    /\ media_filter = "audio" /\ media_max_size = << 2000000 >>
    /\ get_media_type(stream[1].media) = "video"
    /\ NotesOf(1)[1].MEDIA.k = "not downloaded"

\* ---------------------------------------------------------------- C7

\* C7 as stated: no error other than a chat-resolution error (configuration
\* errors precede the run) takes control out of the run before its normal
\* completion.
C7_OnlyResolutionAborts ==
    exit \in {"", "complete", "not_found", "interrupt"}

\* C7, amended: the errors that end the run early are those of the session
\* start, of the chat resolution and of the message stream; an error raised
\* by a download attempt never does: the step that handles it goes to the
\* backoff delay or to the next message, and once a download has failed for
\* good the run goes on to normal completion unless the stream raises or an
\* interrupt arrives.
C7_DownloadErrorsAbsorbed ==
    /\ [](exit \in {"", "complete", "session_error", "not_found", "stream_error", "interrupt"})
    /\ [][ (pc = "download" /\ exit' # "interrupt")
               => (exit' = "" /\ pc' \in {"sleep", "iter", "download"}) ]_vars
    /\ [](exit = "complete" => pos = Len(stream))
    /\ ((media_failed > 0 /\ exit = "")
            ~> (exit \in {"complete", "stream_error", "interrupt"}))

\* The first message's download failed for good, the second message was
\* processed and the run completed.
C7_Witness ==
    /\ exit = "complete" /\ pos >= 2
    /\ Len(NotesOf(1)) = 1 /\ Len(NotesOf(2)) = 1
    /\ NotesOf(1)[1].MEDIA.k = "Download failed"
    /\ NotesOf(2)[1].MEDIA.k = "file" /\ media_failed = 1 /\ media_count = 1

\* ---------------------------------------------------------------- C8

\* C8: when the chat cannot be resolved the run ends with the transcript
\* file neither created nor truncated, no message pulled, no counter set or
\* changed and no final summary.
C8_ResolutionFailure ==
    exit = "not_found" =>
        /\ pc \in {"disconnect", "end"}
        /\ chat_file \in {"absent", "old"} /\ f = "unopened" /\ transcript = <<>>
        /\ pos = 0 /\ log = <<>>
        /\ ~counters_bound /\ counters = << 0, 0, 0, 0, 0 >>
        /\ summary = <<>>

\* A transcript of an earlier run is still there after the failed run.
C8_Witness ==
    exit = "not_found" /\ pc = "end" /\ chat_file = "old" /\ Len(stream) = 2

\* ---------------------------------------------------------------- C9

\* C9: whatever way control leaves the try body, client.disconnect() is
\* eventually performed, once, and nothing is written to the transcript
\* after it (the file is no longer open by then).
C9_SessionRelease ==
    /\ (exit # "" ~> disconnects = 1)
    /\ [](disconnects <= 1)
    /\ [](disconnects = 1 => exit # "" /\ f # "open")
    /\ [][ disconnects >= 1 => transcript' = transcript ]_vars
    /\ [][ disconnects' > disconnects => transcript' = transcript /\ f # "open" ]_vars

\* Released after an interrupt that arrived during a backoff delay.
C9_Witness ==
    /\ disconnects = 1 /\ exit = "interrupt"
    /\ Len(transcript) >= 1 /\ pos = 1
    /\ Len(log) = 1 /\ log[1] \in Errors

\* --------------------------------------------------------------- C10

\* C10: an interrupt that arrives while the transcript is open closes it in
\* the same step, writes nothing and changes no counter; after it nothing is
\* written, no counter changes and the file stays closed; the transcript is
\* only ever appended to, and what an interrupted run leaves is a prefix of
\* the blocks of the whole stream.
C10_Cancellation ==
    /\ [][ (exit = "" /\ exit' = "interrupt" /\ f = "open")
               => (f' = "closed" /\ transcript' = transcript /\ counters' = counters) ]_vars
    /\ [][ exit = "interrupt"
               => (f' = f /\ transcript' = transcript /\ counters' = counters) ]_vars
    /\ [][ IsPrefix(transcript, transcript') \/ f = "unopened" ]_vars
    /\ [](exit = "interrupt" => f # "open"
                                /\ IsPrefix(TranscriptShape, ExpectedBlocks(Len(stream))))

\* Interrupted during the second attempt of the second message's download,
\* with lines of both messages written.
C10_Witness ==
    /\ exit = "interrupt" /\ pc = "end" /\ f = "closed"
    /\ pos = 2 /\ Len(transcript) = 2 /\ retry_count = 1
    /\ Len(log) = 2 /\ message_count = 2

\* --------------------------------------------------------------- C13

\* The failed attempts of the message last pulled.
Failures == SelectSeq(log, LAMBDA x : x \in Errors)

\* C13: a delay is entered after a failed attempt exactly when fewer than 3
\* attempts have failed (after the 1st and the 2nd failure), never after the
\* 3rd failure nor after a success; every attempt but the first comes right
\* after exactly one completed delay, and every delay right after a failure.
C13_BackoffPlacement ==
    /\ pc = "sleep" =>
           /\ log # <<>> /\ log[Len(log)] \in Errors
           /\ Len(Failures) \in 1..(max_retries - 1)
    /\ (pc \in {"download", "iter"} /\ log # <<>> /\ log[Len(log)] \in Errors) =>
           pc = "iter" /\ Len(Failures) = max_retries
    /\ (log # <<>> /\ log[Len(log)] = "ok") => pc # "sleep"
    /\ log # <<>> => log[1] # "sleep"
    /\ \A k \in 2..Len(log) :
           /\ log[k] = "sleep" => log[k - 1] \in Errors
           /\ log[k] # "sleep" => log[k - 1] = "sleep"
    /\ Cardinality({ k \in 1..Len(log) : log[k] = "sleep" }) <= max_retries - 1

\* The third attempt has begun: two failures, each followed by one delay.
C13_Witness ==
    /\ pc = "download" /\ Len(log) = 4
    /\ log[1] \in Errors /\ log[2] = "sleep" /\ log[3] \in Errors /\ log[4] = "sleep"

\* --------------------------------------------------------------- C14

\* C14: when an attempt succeeds it is the last of its item (the k-th of k
\* attempts, k <= 3), the retry cycle is over, the step adds exactly 1 to
\* media_downloaded and nothing to media_failed, the item's only line is
\* the downloaded-file line, and the k-1 failures before it wrote no line
\* and changed no counter.
C14_SuccessStopsRetry ==
    /\ [](Succeeded =>
              /\ Len(Attempts) \in 1..max_retries
              /\ \A k \in 1..Len(Attempts) : Attempts[k] = "ok" <=> k = Len(Attempts)
              /\ log[Len(log)] = "ok"
              /\ pc \notin {"download", "sleep"}
              /\ Len(NotesOf(pos)) = 1
              /\ NotesOf(pos)[1].MEDIA =
                     [k |-> "file", name |-> media_filename(IdOf(pos), stream[pos].media)])
    /\ [][ (~Succeeded /\ Succeeded')
               => /\ media_count' = media_count + 1
                  /\ media_failed' = media_failed
                  /\ NotesOf(pos) = <<>> ]_vars
    /\ [][ (Len(Failures') > Len(Failures) /\ Len(Failures') < max_retries)
               => transcript' = transcript /\ counters' = counters ]_vars
    /\ [][ (Succeeded /\ pos' = pos) => (log' = log /\ media_count' = media_count) ]_vars

\* The third attempt is the first to succeed.
C14_Witness ==
    /\ Succeeded /\ Len(Attempts) = 3 /\ pc = "iter"
    /\ media_count = 1 /\ media_failed = 0

\* --------------------------------------------------------------- C15

\* The filter decision for message i is accept.
Accepted(i) ==
    /\ media_filter = "all" \/ get_media_type(stream[i].media) = media_filter
    /\ media_max_size = <<>> \/ get_media_size(stream[i].media) <= media_max_size[1]

\* C15: a download attempt is in progress, or has been made, only for a
\* message that carries media, in a run with downloads enabled, when both
\* filters accept the item; a run with downloads disabled makes no attempt.
C15_DownloadsOnlyAccepted ==
    /\ (pc \in {"download", "sleep"} \/ log # <<>>) =>
           /\ pos >= 1 /\ HasMedia(pos)
           /\ download_media
           /\ Accepted(pos)
    /\ attempts_total > 0 => download_media
    /\ (pos >= 1 /\ pc = "iter" /\ ~(HasMedia(pos) /\ download_media /\ Accepted(pos))) =>
           log = <<>>

\* An attempt made for the second message after the first was rejected.
C15_Witness ==
    /\ pos = 2 /\ log # <<>> /\ attempts_total = 1
    /\ HasMedia(1) /\ ~Accepted(1) /\ Accepted(2)

\* --------------------------------------------------------------- C16

\* C16: an item that passes the type check is rejected by size, with the
\* reason 'too large (<size> bytes)', iff a max size is configured and the
\* item's size exceeds it; otherwise it is accepted: at size = max, at
\* unknown size (0), and whenever no max is configured.
C16_SizeBoundary ==
    (/\ probe.fn = "skip_reason" /\ probe.res # <<>>
     /\ probe.filter = "all" \/ probe.filter = get_media_type(probe.media)) =>
        LET size == get_media_size(probe.media)
            tooLarge == probe.maxsize # <<>> /\ size > probe.maxsize[1]
        IN  /\ tooLarge =>
                probe.res[1] = << [k |-> "too large", bytes |-> Thousands(size)] >>
            /\ ~tooLarge => probe.res[1] = <<>>
            /\ (probe.maxsize = <<>> \/ size = 0 \/ << size >> = probe.maxsize) =>
                   probe.res[1] = <<>>

\* A video of exactly the max size passed both filters.
C16_Witness ==
    /\ probe.fn = "skip_reason" /\ probe.res = << <<>> >>
    /\ probe.filter = "video" /\ probe.maxsize = << 2000000 >>
    /\ probe.media.variant = "document" /\ probe.media.size = 2000000

\* --------------------------------------------------------------- C17

\* The type an attribute hints at, "" if it hints at none.
HintOf(attr) ==
    IF InName("Audio", attr.name) \/ InName("Voice", attr.name) THEN "audio"
    ELSE IF InName("Video", attr.name) THEN "video"
    ELSE IF InName("Photo", attr.name) THEN "image"
    ELSE ""

\* The result is what the first hinting attribute hints at, 'other' if none does.
ByAttributes(attrs, res) ==
    \/ \E k \in 1..Len(attrs) :
           /\ HintOf(attrs[k]) # "" /\ res = HintOf(attrs[k])
           /\ \A j \in 1..(k - 1) : HintOf(attrs[j]) = ""
    \/ res = "other" /\ \A k \in 1..Len(attrs) : HintOf(attrs[k]) = ""

\* The top-level token of a mime type, lower case ("" when there is no string).
TopLevel(mime) ==
    IF mime = <<>> THEN ""
    ELSE CASE mime[1] \in {"Image", "image"} -> "image"
           [] mime[1] \in {"AUDIO", "audio"} -> "audio"
           [] mime[1] \in {"Video", "video"} -> "video"
           [] OTHER -> mime[1]

\* C17 as stated: 'image' for a photo, None for no media, 'other' for
\* another variant; a document with a mime type is classified by its
\* top-level token alone ('other' when it is none of the three), and by its
\* attributes only when it has no mime type.
C17_ClassifierPrecedence ==
    (probe.fn = "get_media_type" /\ probe.res # <<>>) =>
        LET m == probe.media
            r == probe.res[1]
        IN  CASE m.variant = "none" -> r = "None"
              [] m.variant = "photo" -> r = "image"
              [] m.variant = "document" ->
                     IF m.mime_type # <<>>
                     THEN r = IF TopLevel(m.mime_type) \in {"image", "audio", "video"}
                              THEN TopLevel(m.mime_type) ELSE "other"
                     ELSE ByAttributes(m.attributes, r)
              [] OTHER -> r = "other"

\* C17, amended: the attributes are consulted when there is no mime type
\* and also when its top-level token is none of image, audio, video.
C17_ClassifierPrecedenceAmended ==
    (probe.fn = "get_media_type" /\ probe.res # <<>>) =>
        LET m == probe.media
            r == probe.res[1]
        IN  CASE m.variant = "none" -> r = "None"
              [] m.variant = "photo" -> r = "image"
              [] m.variant = "document" ->
                     IF TopLevel(m.mime_type) \in {"image", "audio", "video"}
                     THEN r = TopLevel(m.mime_type)
                     ELSE ByAttributes(m.attributes, r)
              [] OTHER -> r = "other"

\* A document of mime type application/pdf classified by its attribute.
C17_Witness ==
    /\ probe.fn = "get_media_type" /\ probe.res = << "audio" >>
    /\ probe.media.variant = "document"
    /\ probe.media.mime_type = <<"application", "pdf">>

\* --------------------------------------------------------------- C18

Present(opt) == opt # <<>> /\ opt[1] # ""

\* C18: the name written is the sender's handle when present and non-empty,
\* else the first name when present and non-empty, else 'Unknown'; it is
\* never empty and never the text of an absent value.
C18_SenderFallback ==
    (probe.fn = "sender_name" /\ probe.res # <<>>) =>
        LET u == probe.sender
            r == probe.res[1]
        IN  /\ r = IF u.kind # "none" /\ Present(u.username) THEN u.username[1]
                   ELSE IF u.kind = "user" /\ Present(u.first_name) THEN u.first_name[1]
                   ELSE "Unknown"
            /\ r \notin { "", "None" }

\* A sender without handle and first name got the name 'Unknown': a channel.
C18_Witness ==
    /\ probe.fn = "sender_name" /\ probe.res = << "Unknown" >>
    /\ probe.sender.kind = "channel"

\* --------------------------------------------------------------- C19

\* The accepted media messages among those pulled so far.
AcceptedSoFar == { i \in 1..pos : DispositionOf(i) = "download" }

\* The lines message i has in the transcript.
LinesOf(i) == SelectSeq(transcript, LAMBDA l : l.msg = i)

\* C19: when every call returns, the run reaches normal completion whatever
\* the stream and whichever attempts fail; a message gets at most 3 attempts
\* and 2 delays; the attempts of the run number at most 3 for each accepted
\* media message; messages are pulled one at a time, each counted once, and
\* at completion all have been pulled and each has its lines once.
C19_BoundedTermination ==
    /\ <>(exit = "complete" /\ pc = "end")
    /\ [](/\ Len(Attempts) <= max_retries
          /\ Len(log) - Len(Attempts) <= max_retries - 1
          /\ attempts_total <= max_retries * Cardinality(AcceptedSoFar)
          /\ pc \in {"iter", "download", "sleep"} => message_count = pos)
    /\ [][ /\ pos' \in {pos, pos + 1}
           /\ pos' = pos + 1 => message_count' = message_count + 1
           /\ attempts_total' \in {attempts_total, attempts_total + 1} ]_vars
    /\ [](exit = "complete" =>
              /\ pos = Len(stream) /\ message_count = Len(stream)
              /\ \A i \in 1..Len(stream) :
                     Len(LinesOf(i)) = (IF stream[i].message # "" THEN 1 ELSE 0)
                                       + (IF HasMedia(i) THEN 1 ELSE 0))

\* Two accepted media messages, three failed attempts each, and completion.
C19_Witness ==
    /\ exit = "complete" /\ pc = "end"
    /\ attempts_total = 2 * max_retries /\ media_failed = 2 /\ message_count = 2

====
